---- MODULE Spec2Model ----
(***************************************************************************)
(* A model of the OBS recording controller (src/src/obsRecording.py) and   *)
(* of the WebSocket command handler that drives it                         *)
(* (src/src/websocketInterface.py).                                        *)
(*                                                                         *)
(* The controller is single threaded: every public method runs to          *)
(* completion, so each method is one action.  The methods are written as   *)
(* operators from a "world" record (the controller's fields, the file      *)
(* system it touches and the observations of the running call) to the      *)
(* world after the call, so that a method which calls another one (stop    *)
(* calls move, rename and the drain of the queue) is the composition of    *)
(* the operators.                                                          *)
(***************************************************************************)
EXTENDS Integers, Sequences, FiniteSets, TLC

-----------------------------------------------------------------------------
(* Bounds of the exploration *)

\* set_save_location calls issued in one run (each call gets an identity)
MaxReq == 2
\* length of queued_operations a client is still allowed to extend
MaxQueue == 2
\* recordings the backend starts in one run
MaxRec == 1
\* label prefixes a file name may carry before the explicit rename is cut off
MaxPrefix == 2
\* recordings of a run of start/stop cycles
MaxCycles == 2
\* length of the name of a file sent over the transfer connection
MaxNameLen == 2
\* number of bytes of such a file
MaxBytes == 2

(* Program constants *)

\* max_retries of move_recorded_files / prepend_vid_name_last_recordings
MaxRetries == 6
\* width of the size field of the file transfer
SizeWidth == 10
\* most bytes the receiver asks for in one read
ChunkSize == 1024

-----------------------------------------------------------------------------
(* Values *)

\* OBSStatus
NOT_CONNECTED == "NOT_CONNECTED"
CONNECTED == "CONNECTED"
RECORDING_STARTED == "RECORDING_STARTED"
IDLE == "IDLE"
KILL == "KILL"
SAVING == "SAVING"

\* Python's None, for folders, roots and labels
None == "None"
\* a session folder is <<root, label, i>> (the date folder is fixed: one day);
\* an unset folder is the empty tuple
NoFolder == << >>

\* the root folder callers name (the interface's save_folder); it may not
\* exist yet
SaveRoot == "R"
Roots == {SaveRoot}
\* labels (vid_name); DefaultLabel is the default of the parameter
DefaultLabel == "Recording"
Labels == {"A", DefaultLabel}
\* labels the clients of the interface send with SetName
ClientLabels == {"A"}

\* the answers of the confirmation pop-up, for one call
Answers == {TRUE, FALSE}

\* the name the backend gives the file of the n-th recording (time stamped,
\* hence distinct per recording)
RecName(n) == IF n = 1 THEN <<"v1.mkv">> ELSE IF n = 2 THEN <<"v2.mkv">>
              ELSE IF n = 3 THEN <<"v3.mkv">> ELSE <<"v4.mkv">>
\* a file left in the buffer by something else than a recording
StrayFile == [name |-> <<"notes.txt">>, rec |-> 0]

\* client connections of the WebSocket server
Conns == {1, 2}

\* failed attempts a file may need before a move or rename gets through
LockChoices == {0, 2, MaxRetries}

NoExc == "none"
GoodHealth == [ok |-> TRUE, msg |-> "Good"]

VARIABLES
    mode,                 \* "lib": the controller is used as a library;
                          \* "server": the WebSocket interface runs on it
    statusCode,           \* OBSController.statusCode
    ws,                   \* OBSController.ws is set (a client handle exists)
    comps,                \* recording_controller and file_manager are set
    popUp,                \* a confirmation collaborator was passed
    queued_operations,    \* sequence of [root, label, id]: the closures
    last_upload_health,   \* [ok, msg]
    fm,                   \* the FileManagementController's fields
    fs,                   \* the file system: roots, folders, files, buffer
    nextReq,              \* identity of the next set_save_location call
    nRec,                 \* recordings the backend has started
    execCount,            \* per request id: times its body was entered
    issued,               \* session folders set_save_location has created
    endpoint,             \* ENDPOINT of the interface is configured
    conn,                 \* per client connection, its handler: "ready" for
                          \* the next message (of this or of a new
                          \* connection), or "sleeping", "closing" in Kill
    stop_event,           \* OBSWebSocketInterface.stop_event is set
    out,                  \* observations of the last operation
    transfer              \* one connection of the file transfer

vars == <<mode, statusCode, ws, comps, popUp, queued_operations,
          last_upload_health, fm, fs, nextReq, nRec, execCount, issued,
          endpoint, conn, stop_event, out, transfer>>

-----------------------------------------------------------------------------
(* The world record and the observations *)

World ==
    [statusCode |-> statusCode, ws |-> ws, comps |-> comps, popUp |-> popUp,
     queued_operations |-> queued_operations,
     last_upload_health |-> last_upload_health,
     fm |-> fm, fs |-> fs, nRec |-> nRec, execCount |-> execCount,
     issued |-> issued, out |-> out]

\* the observations at the start of operation op
NewOut(op) ==
    [op |-> op,
     open |-> TRUE,                 \* the connection outlives the message
     pre |-> statusCode,            \* status on entry
     exc |-> NoExc,                 \* exception that left the operation
     log |-> {},                    \* errors printed
     calls |-> << >>,               \* <<primitive, returned>> of each
                                    \* backend primitive or POST invoked
     ran |-> << >>,                 \* request ids whose body was entered
     created |-> << >>,             \* session folders created
     ret |-> "None",                \* value returned, printed
     moved |-> {},                  \* files moved out of the buffer
     moveFailed |-> {},             \* files whose move was given up
     attempts |-> {},               \* <<file name, attempts that hit a
                                    \* lock, attempts made>> of each move
     uploaded |-> << >>,            \* files posted, in order
     uploadedFrom |-> NoFolder,
     checked |-> NoFolder,          \* folder the health check validated
     frozen |-> {},                 \* recordings it was to find frozen
     sent |-> << >>,                \* files sent by SendFilePrevious
     sentFrom |-> NoFolder,
     reply |-> << >>]               \* messages sent back on the connection

Begin(op) == [World EXCEPT !.out = NewOut(op)]

Raise(w, e) == [w EXCEPT !.out.exc = e]
Log(w, m) == [w EXCEPT !.out.log = @ \cup {m}]
\* a backend primitive (or an HTTP POST) was invoked; ok: it returned
Call(w, c, ok) == [w EXCEPT !.out.calls = Append(@, <<c, ok>>)]
Raised(w) == w.out.exc # NoExc

Commit(w) ==
    /\ statusCode' = w.statusCode
    /\ ws' = w.ws
    /\ comps' = w.comps
    /\ popUp' = w.popUp
    /\ queued_operations' = w.queued_operations
    /\ last_upload_health' = w.last_upload_health
    /\ fm' = w.fm
    /\ fs' = w.fs
    /\ nRec' = w.nRec
    /\ execCount' = w.execCount
    /\ issued' = w.issued
    /\ out' = w.out
    /\ transfer' = transfer

\* files directly inside folder d
FilesIn(w, d) == {e[2] : e \in {x \in w.fs.files : x[1] = d}}

-----------------------------------------------------------------------------
(* FileManagementController *)

\* the directory the backend writes its recordings to; it is also the
\* default of buffer_folder
ObsDir == "D"
\* paths a caller passes to set_buffer_folder
BufferPaths == {ObsDir}

set_buffer_folder_fm(w, path) ==
    [w EXCEPT !.fs.bufDirs = @ \cup {path},
              !.fm.buffer_folder = path]

RECURSIVE IncrementFrom(_, _, _, _)
IncrementFrom(folders, root, label, i) ==
    IF <<root, label, i>> \in folders
    THEN IncrementFrom(folders, root, label, i + 1)
    ELSE i

\* a numbering by the count of the session folders the label already has
get_incremental_folder_by_count(folders, root, label) ==
    <<root, label,
      1 + Cardinality({f \in folders : f[1] = root /\ f[2] = label})>>

\* while os.path.exists(base/i): i += 1
get_incremental_folder(folders, root, label) ==
    <<root, label, IncrementFrom(folders, root, label, 1)>>

\* a session folder adopted without demoting the current one
ResolveSession_keeps_last_used(w, root, vid_name) ==
    LET session_folder == get_incremental_folder(w.fs.folders, root, vid_name)
    IN [w EXCEPT !.fm.last_used_root_folder = root,
                 !.fm.last_vid_name = vid_name,
                 !.fs.folders = @ \cup {session_folder},
                 !.fm.current_using_folder = session_folder,
                 !.issued = @ \cup {session_folder},
                 !.out.created = Append(@, session_folder)]

\* lines 301-317: the root exists; create and adopt the session folder
ResolveSession(w, root, vid_name) ==
    LET session_folder == get_incremental_folder(w.fs.folders, root, vid_name)
    IN [w EXCEPT !.fm.last_used_root_folder = root,
                 !.fm.last_vid_name = vid_name,
                 !.fs.folders = @ \cup {session_folder},
                 !.fm.last_used_folder = w.fm.current_using_folder,
                 !.fm.current_using_folder = session_folder,
                 !.issued = @ \cup {session_folder},
                 !.out.created = Append(@, session_folder)]

\* confirm is the answer the pop-up gives if it is asked
set_save_location_fm(w, root_folder, vid_name, confirm) ==
    LET root == IF root_folder = None THEN w.fm.last_used_root_folder
                ELSE root_folder
    IN IF root = None THEN Raise(w, "TypeError")       \* os.path.exists(None)
       ELSE IF root \notin w.fs.roots
       THEN IF ~w.popUp THEN Raise(w, "AttributeError")  \* None.show_popup_yesno
            ELSE IF ~confirm THEN Raise(w, "ValueError")
            ELSE ResolveSession([w EXCEPT !.fs.roots = @ \cup {root}],
                                root, vid_name)
       ELSE ResolveSession(w, root, vid_name)

\* a move that is tried once and given up at the first lock
RetryLoop_single_attempt(k, retries, max_retries) ==
    [ok |-> k = 0, attempts |-> 1]

\* the retry loop of a move or rename whose first k attempts hit a lock:
\* [ok, attempts]
RECURSIVE RetryLoop(_, _, _)
RetryLoop(k, retries, max_retries) ==
    IF retries < max_retries
    THEN IF retries >= k
         THEN [ok |-> TRUE, attempts |-> retries + 1]
         ELSE RetryLoop(k, retries + 1, max_retries)
    ELSE [ok |-> FALSE, attempts |-> retries]

\* files os.listdir(buffer_folder) yields
BufferListing(w) ==
    IF w.fm.buffer_folder = ObsDir THEN w.fs.buffer ELSE {}

\* locks[r]: failed attempts the file of recording r needs
move_recorded_files_fm(w, max_retries, locks) ==
    IF w.fm.current_using_folder = NoFolder
    THEN Log(w, "no folder set")
    ELSE LET dst == w.fm.current_using_folder
             w1 == [w EXCEPT !.fm.sessions_started = TRUE]
             src == BufferListing(w)
             res(f) == RetryLoop(locks[f.rec], 0, max_retries)
             ok == {f \in src : res(f).ok}
             bad == src \ ok
             names == {f.name : f \in ok}
             kept == {e \in w.fs.files : ~(e[1] = dst /\ e[2].name \in names)}
         IN IF w.fm.buffer_folder \notin w.fs.bufDirs
            THEN Log(w1, "failed to move the files")
            ELSE IF src # {} /\ dst \notin w.fs.folders
            THEN Log(w1, "failed to move the files")
            ELSE [w1 EXCEPT
                    !.fs.buffer = IF w.fm.buffer_folder = ObsDir
                                  THEN @ \ ok ELSE @,
                    !.fs.files = kept \cup {<<dst, f>> : f \in ok},
                    !.out.moved = @ \cup ok,
                    !.out.moveFailed = @ \cup bad,
                    !.out.attempts =
                        @ \cup {<<f.name, locks[f.rec], res(f).attempts>> :
                                    f \in src},
                    !.out.log = IF bad # {} THEN @ \cup {"failed to move"}
                                ELSE @]

\* a rename that leaves alone the files that already carry the label
prepend_vid_name_once_fm(w, vid_name, max_retries, locks) ==
    IF w.fm.current_using_folder = NoFolder
    THEN Log(w, "no folder set")
    ELSE LET dir == w.fm.current_using_folder
             label == IF vid_name = None THEN w.fm.last_vid_name ELSE vid_name
             todo == {f \in FilesIn(w, dir) : f.name[1] # label}
         IN [w EXCEPT
               !.fs.files = (@ \ {<<dir, f>> : f \in todo})
                   \cup {<<dir, [f EXCEPT !.name = <<label>> \o @]>> : f \in todo}]

\* FileManagementController.prepend_vid_name_last_recordings
prepend_vid_name_last_recordings_fm(w, vid_name, max_retries, locks) ==
    IF w.fm.current_using_folder = NoFolder
    THEN Log(w, "no folder set")
    ELSE LET dir == w.fm.current_using_folder
             label == IF vid_name = None THEN w.fm.last_vid_name ELSE vid_name
             here == FilesIn(w, dir)
             ok == {f \in here : RetryLoop(locks[f.rec], 0, max_retries).ok}
             renamed(f) == [f EXCEPT !.name = <<label>> \o @]
         IN IF dir \notin w.fs.folders
            THEN Log(w, "failed to rename the files")
            ELSE [w EXCEPT
                    !.fs.files = (@ \ {<<dir, f>> : f \in ok})
                                 \cup {<<dir, renamed(f)>> : f \in ok},
                    !.out.log = IF here \ ok # {}
                                THEN @ \cup {"failed to rename"} ELSE @]

-----------------------------------------------------------------------------
(* RecordingController and OBSController *)

\* the body of one request is entered: count it
Enter(w, id) ==
    [w EXCEPT !.execCount[id] = @ + 1,
              !.out.ran = Append(@, id)]

\* a set_save_location that returns before it has put the status back
set_save_location_left_saving(w, root_folder, vid_name, id, confirm) ==
    IF w.statusCode # IDLE
    THEN [Log(w, "not idle, queueing") EXCEPT
            !.queued_operations =
                Append(@, [root |-> root_folder, label |-> vid_name, id |-> id]),
            !.out.ret = "False"]
    ELSE set_save_location_fm(Enter([w EXCEPT !.statusCode = SAVING], id),
                              root_folder, vid_name, confirm)

\* OBSController.set_save_location; id identifies the call
set_save_location(w, root_folder, vid_name, id, confirm) ==
    IF w.statusCode # IDLE
    THEN [Log(w, "not idle, queueing") EXCEPT
            !.queued_operations =
                Append(@, [root |-> root_folder, label |-> vid_name, id |-> id]),
            !.out.ret = "False"]
    ELSE IF ~w.comps THEN Raise([w EXCEPT !.statusCode = SAVING], "AttributeError")
    ELSE LET w1 == set_save_location_fm(
                       Enter([w EXCEPT !.statusCode = SAVING], id),
                       root_folder, vid_name, confirm)
         IN IF Raised(w1) THEN w1
            ELSE [w1 EXCEPT !.statusCode = IDLE, !.out.ret = "True"]

\* while self.queued_operations: self.queued_operations.pop(0)()
\* (fuel cuts a drain that would not end, and records it)
RECURSIVE pop_all_queued_operations(_, _, _)
pop_all_queued_operations(w, confirm, fuel) ==
    IF w.queued_operations = << >> THEN w
    ELSE IF fuel = 0 THEN Log(w, "drain does not terminate")
    ELSE LET op == Head(w.queued_operations)
             w1 == set_save_location(
                       [w EXCEPT !.queued_operations = Tail(@)],
                       op.root, op.label, op.id, confirm)
         IN IF Raised(w1) THEN w1
            ELSE pop_all_queued_operations(w1, confirm, fuel - 1)

\* fuel for a drain: more than any queue the bounds allow
DrainFuel == 2 * (MaxReq + 1)

\* a try block that records the new status before it asks the backend
TryStartRecord_status_first(w, backendOK) ==
    LET w1 == Call([w EXCEPT !.statusCode = RECORDING_STARTED],
                   "start_record", backendOK)
    IN IF backendOK THEN [w1 EXCEPT !.nRec = @ + 1]
       ELSE Log(w1, "failed to start recording")

\* the try block of RecordingController.start_recording;
\* backendOK: ws.start_record() returns
TryStartRecord(w, backendOK) ==
    LET w1 == Call(w, "start_record", backendOK)
    IN IF backendOK
       THEN [w1 EXCEPT !.statusCode = RECORDING_STARTED,
                       !.nRec = @ + 1]
       ELSE Log(w1, "failed to start recording")

\* RecordingController.start_recording
start_recording_rc(w, backendOK) ==
    IF w.statusCode # IDLE THEN Log(w, "not idle")
    ELSE IF ~w.ws THEN Log(w, "not connected")
    ELSE TryStartRecord(w, backendOK)

\* a start_recording that asks the backend whatever the status is
start_recording_unguarded(w, backendOK) ==
    IF w.ws THEN TryStartRecord(w, backendOK) ELSE Log(w, "not connected")

\* OBSController.start_recording
start_recording(w, backendOK) ==
    IF w.statusCode # IDLE THEN Log(w, "not idle")
    ELSE IF w.ws THEN start_recording_rc(w, backendOK)
    ELSE Log(w, "not connected")

\* the backend finishes the file of the running recording in its directory
Deposit(w) ==
    [w EXCEPT !.fs.buffer = @ \cup {[name |-> RecName(w.nRec), rec |-> w.nRec]}]

\* a stop that drains the queue before it renames the archived files
stop_recording_rc_rename_after_drain(w, backendOK, mlocks, rlocks, confirm) ==
    IF w.statusCode # RECORDING_STARTED THEN Log(w, "recording not active")
    ELSE IF ~w.ws THEN Log(w, "not connected")
    ELSE LET w1 == Call(w, "stop_record", backendOK)
         IN IF ~backendOK THEN Log(w1, "failed to stop recording")
            ELSE LET w2 == move_recorded_files_fm(Deposit(w1), MaxRetries, mlocks)
                     w3 == [w2 EXCEPT !.statusCode = IDLE]
                     w4 == IF w3.queued_operations # << >>
                           THEN pop_all_queued_operations(w3, confirm, DrainFuel)
                           ELSE w3
                 IN IF Raised(w4)
                    THEN [Log(w4, "failed to stop recording") EXCEPT
                            !.out.exc = NoExc]
                    ELSE prepend_vid_name_last_recordings_fm(
                             w4, None, MaxRetries, rlocks)

\* a stop that drains the queue while the status is still RECORDING_STARTED
stop_recording_rc_drain_while_recording(w, backendOK, mlocks, rlocks, confirm) ==
    IF w.statusCode # RECORDING_STARTED THEN Log(w, "recording not active")
    ELSE IF ~w.ws THEN Log(w, "not connected")
    ELSE LET w1 == Call(w, "stop_record", backendOK)
         IN IF ~backendOK THEN Log(w1, "failed to stop recording")
            ELSE LET w2 == move_recorded_files_fm(Deposit(w1), MaxRetries, mlocks)
                     w3 == prepend_vid_name_last_recordings_fm(
                               w2, None, MaxRetries, rlocks)
                     w4 == IF w3.queued_operations # << >>
                           THEN pop_all_queued_operations(w3, confirm, DrainFuel)
                           ELSE w3
                 IN [w4 EXCEPT !.statusCode = IDLE]

\* RecordingController.stop_recording; backendOK: ws.stop_record() returns
stop_recording_rc(w, backendOK, mlocks, rlocks, confirm) ==
    IF w.statusCode # RECORDING_STARTED THEN Log(w, "recording not active")
    ELSE IF ~w.ws THEN Log(w, "not connected")
    ELSE LET w1 == Call(w, "stop_record", backendOK)
         IN IF ~backendOK THEN Log(w1, "failed to stop recording")
            ELSE LET w2 == move_recorded_files_fm(Deposit(w1), MaxRetries, mlocks)
                     w3 == prepend_vid_name_last_recordings_fm(
                               w2, None, MaxRetries, rlocks)
                     w4 == [w3 EXCEPT !.statusCode = IDLE]
                     w5 == IF w4.queued_operations # << >>
                           THEN pop_all_queued_operations(w4, confirm, DrainFuel)
                           ELSE w4
                 IN IF Raised(w5)
                    THEN [Log(w5, "failed to stop recording") EXCEPT
                            !.out.exc = NoExc]
                    ELSE w5

\* OBSController.stop_recording
stop_recording(w, backendOK, mlocks, rlocks, confirm) ==
    IF w.statusCode # RECORDING_STARTED THEN Log(w, "recording not active")
    ELSE IF ~w.comps THEN Raise(w, "AttributeError")
    ELSE [stop_recording_rc(w, backendOK, mlocks, rlocks, confirm)
            EXCEPT !.statusCode = IDLE]

\* OBSController.move_recorded_files
move_recorded_files(w, locks, confirm) ==
    LET w0 == [w EXCEPT !.statusCode = SAVING]
    IN IF ~w.comps THEN Raise(w0, "AttributeError")
       ELSE LET w1 == [move_recorded_files_fm(w0, MaxRetries, locks)
                          EXCEPT !.statusCode = IDLE]
            IN IF w1.queued_operations # << >>
               THEN pop_all_queued_operations(w1, confirm, DrainFuel)
               ELSE w1

\* OBSController.prepend_vid_name_last_recordings
prepend_vid_name_last_recordings(w, vid_name, locks, confirm) ==
    LET w0 == [w EXCEPT !.statusCode = SAVING]
    IN IF ~w.comps THEN Raise(w0, "AttributeError")
       ELSE LET w1 == [prepend_vid_name_last_recordings_fm(
                           w0, vid_name, MaxRetries, locks)
                          EXCEPT !.statusCode = IDLE]
            IN IF w1.queued_operations # << >>
               THEN pop_all_queued_operations(w1, confirm, DrainFuel)
               ELSE w1

\* OBSController.set_buffer_folder
set_buffer_folder(w, path) ==
    IF ~w.comps THEN Raise(w, "AttributeError")
    ELSE set_buffer_folder_fm(w, path)

\* ConnectionManager.connect; ok: obs.ReqClient(...) returns a client
connect_cm(w, ok) ==
    IF ok THEN [w EXCEPT !.ws = TRUE] ELSE Log(w, "failed to connect")

\* OBSController.connect
connect(w, ok) == [connect_cm(w, ok) EXCEPT !.statusCode = CONNECTED]

\* ConnectionManager.disconnect
disconnect_cm(w) == IF w.ws THEN Call(w, "disconnect", TRUE) ELSE w

\* a disconnect that terminates only a controller with a backend client
disconnect_if_open(w) ==
    IF w.ws THEN [Call(w, "disconnect", TRUE) EXCEPT !.statusCode = KILL]
    ELSE w

\* OBSController.disconnect
disconnect(w) == [disconnect_cm(w) EXCEPT !.statusCode = KILL]

\* the orders in which os.listdir may yield the files S
Listings(S) ==
    {p \in [1..Cardinality(S) -> S] :
        \A i, j \in 1..Cardinality(S) : p[i] = p[j] => i = j}

\* the loop of upload_last_recordings over listing, from index i on; the
\* POST of file number failAt answers with an error status and
\* raise_for_status() raises
RECURSIVE UploadFrom(_, _, _, _)
UploadFrom(w, listing, i, failAt) ==
    IF i > Len(listing)
    THEN [w EXCEPT !.last_upload_health = GoodHealth,
                   !.out.ret = "(True, Good)"]
    ELSE IF i = failAt THEN Raise(Call(w, "post", FALSE), "HTTPError")
    ELSE UploadFrom([Call(w, "post", TRUE) EXCEPT
                        !.out.uploaded = Append(@, listing[i])],
                    listing, i + 1, failAt)

\* OBSController.upload_last_recordings
upload_last_recordings(w, listing, failAt) ==
    IF ~w.comps THEN Raise(w, "AttributeError")
    ELSE IF w.fm.current_using_folder = NoFolder
    THEN [Log(w, "no last used folder set") EXCEPT
            !.last_upload_health = [ok |-> FALSE, msg |-> "no folder set"],
            !.out.ret = "(False, error)"]
    ELSE IF w.fm.current_using_folder \notin w.fs.folders
    THEN [Log(w, "folder does not exist") EXCEPT
            !.last_upload_health = [ok |-> FALSE, msg |-> "folder missing"],
            !.out.ret = "(False, error)"]
    ELSE UploadFrom([w EXCEPT !.out.uploadedFrom = w.fm.current_using_folder],
                    listing, 1, failAt)

\* the file name ends in .mp4, .avi, .mov or .mkv
IsVideo(f) == f.name[Len(f.name)] # "notes.txt"

\* a health check that looks at the folder but not into the videos
check_last_used_folder_no_frames(w, frozen) ==
    LET dir == w.fm.last_used_folder
        w1 == [w EXCEPT !.out.frozen = frozen, !.out.checked = dir]
    IN IF ~w.fm.sessions_started
          \/ (dir # NoFolder /\ dir \in w.fs.folders /\ FilesIn(w, dir) # {})
       THEN [w1 EXCEPT !.out.ret = "(True, Good)"]
       ELSE [w1 EXCEPT !.out.ret = "(False, error)"]

\* FileManagementController.check_last_used_folder; frozen: the recordings
\* whose first and last frame compare equal.  The result is left in out.ret.
\* (health_check and previous_values are written here and read nowhere:
\* they are left out.)
check_last_used_folder(w, frozen) ==
    IF ~w.fm.sessions_started
    THEN [Log(w, "no session started") EXCEPT !.out.ret = "(True, Good)",
                                               !.out.frozen = frozen]
    ELSE LET w1 == [w EXCEPT !.out.ret = "(False, error)",
                             !.out.frozen = frozen]
             dir == w.fm.last_used_folder
             files == FilesIn(w, dir)
         IN IF dir = NoFolder THEN Log(w1, "no last used folder set")
            ELSE IF dir \notin w.fs.folders
            THEN Log([w1 EXCEPT !.out.checked = dir], "folder does not exist")
            ELSE IF files = {}
            THEN Log([w1 EXCEPT !.out.checked = dir], "folder is empty")
            ELSE IF \E f \in files : IsVideo(f) /\ f.rec \in frozen
            THEN Log([w1 EXCEPT !.out.checked = dir], "same first and last frame")
            ELSE [w1 EXCEPT !.out.checked = dir,
                            !.out.ret = "(True, Good)"]


\* what the interface and a library caller run for a health check:
\* self.obs_controller.file_manager.check_last_used_folder()
health_check(w, frozen) ==
    IF ~w.comps THEN Raise(w, "AttributeError")
    ELSE check_last_used_folder(w, frozen)

-----------------------------------------------------------------------------
(* OBSWebSocketInterface.handler: the branches of one message *)

Reply(w, m) == [w EXCEPT !.out.reply = Append(@, m)]

\* elif message == "health"
on_health(w, frozen) ==
    LET w1 == health_check(w, frozen)
        check == w1.out.ret = "(True, Good)"
        check2 == w1.last_upload_health.ok
    IN IF Raised(w1) THEN w1
       ELSE IF check /\ check2 THEN Reply(w1, "Good")
       ELSE IF ~check THEN Reply(w1, "folder error")
       ELSE Reply(w1, w1.last_upload_health.msg)

\* the loop of the SendFilePrevious branch; receiverUp: s.connect() succeeds
RECURSIVE SendFrom(_, _, _, _)
SendFrom(w, listing, i, receiverUp) ==
    IF i > Len(listing) THEN w
    ELSE IF ~receiverUp THEN Raise(w, "ConnectionRefusedError")
    ELSE SendFrom([w EXCEPT !.out.sent = Append(@, listing[i])],
                  listing, i + 1, receiverUp)

\* elif message.startswith("SendFilePrevious"); wellFormed: the message
\* has a host and a numeric port
on_send_file_previous(w, wellFormed, listing, receiverUp) ==
    IF ~wellFormed THEN Raise(w, "IndexError")
    ELSE IF ~w.comps THEN Raise(w, "AttributeError")
    ELSE LET last_folder == w.fm.last_used_folder
         IN IF last_folder = NoFolder THEN Log(w, "no previous folder")
            ELSE IF last_folder \notin w.fs.folders
            THEN Log(w, "previous folder does not exist")
            ELSE SendFrom([w EXCEPT !.out.sentFrom = last_folder],
                          listing, 1, receiverUp)

-----------------------------------------------------------------------------
(* The file transfer: send_file and AsyncFileReceiver.receive_file *)

NL == "NL"
Digits == <<"0", "1", "2", "3", "4", "5", "6", "7", "8", "9">>
\* what str.strip() removes
Whitespace == {" ", NL}
\* characters of a file name, bytes of a file
NameChars == {"a", " "}
DataBytes == {"x", NL}

SeqsOf(S, lo, hi) == UNION {[1..n -> S] : n \in lo..hi}
FileNames == SeqsOf(NameChars, 1, MaxNameLen)
FileContents == SeqsOf(DataBytes, 0, MaxBytes)

\* f"{n:0{width}d}" for n below 10^width
RECURSIVE ZeroPadded(_, _)
ZeroPadded(n, width) ==
    IF width = 0 THEN << >>
    ELSE Append(ZeroPadded(n \div 10, width - 1), Digits[(n % 10) + 1])

\* the bytes send_file writes for the file (name, data)
send_file(name, data) ==
    ZeroPadded(Len(data), SizeWidth) \o name \o <<NL>> \o data

RECURSIVE LStrip(_)
LStrip(s) ==
    IF s # << >> /\ Head(s) \in Whitespace THEN LStrip(Tail(s)) ELSE s

RECURSIVE RStrip(_)
RStrip(s) ==
    IF s # << >> /\ s[Len(s)] \in Whitespace
    THEN RStrip(SubSeq(s, 1, Len(s) - 1)) ELSE s

\* str.strip()
Strip(s) == RStrip(LStrip(s))

\* int() of a string of decimal digits
RECURSIVE ParseInt(_)
ParseInt(s) ==
    IF s = << >> THEN 0
    ELSE 10 * ParseInt(SubSeq(s, 1, Len(s) - 1))
         + ((CHOOSE d \in 1..10 : Digits[d] = s[Len(s)]) - 1)

\* index of the first newline of s (there is one)
FirstNL(s) == CHOOSE i \in 1..Len(s) : s[i] = NL /\ \A j \in 1..(i - 1) : s[j] # NL

Min(a, b) == IF a <= b THEN a ELSE b

\* no connection
NoTransfer ==
    [stage |-> "idle", name |-> << >>, data |-> << >>, stream |-> << >>,
     file_size |-> 0, file_name |-> << >>, written |-> << >>]

-----------------------------------------------------------------------------
(* The state after OBSController.__init__ *)

\* what an earlier run of the same day may have left: a session folder,
\* and StrayFile in the buffer
EarlierFolders == {<<SaveRoot, "A", 2>>}

InitFm ==
    [buffer_folder |-> ObsDir, last_vid_name |-> None,
     current_using_folder |-> NoFolder, last_used_root_folder |-> None,
     last_used_folder |-> NoFolder, sessions_started |-> FALSE]

\* reachable: check_connection() succeeded; client: obs.ReqClient() did
Init ==
    \E reachable \in BOOLEAN, client \in BOOLEAN, pop \in BOOLEAN,
       roots \in SUBSET Roots, earlier \in BOOLEAN :
      LET old == IF earlier THEN EarlierFolders ELSE {}
          stray == IF earlier THEN {StrayFile} ELSE {}
      IN
        /\ client => reachable
        /\ earlier => SaveRoot \in roots
        /\ mode = "lib"
        /\ statusCode = IF reachable THEN IDLE ELSE NOT_CONNECTED
        /\ ws = client
        /\ comps = reachable
        /\ popUp = pop
        /\ queued_operations = << >>
        /\ last_upload_health = GoodHealth
        /\ fm = InitFm
        /\ fs = [roots |-> roots, folders |-> old, files |-> {},
                 bufDirs |-> {ObsDir}, buffer |-> stray]
        /\ nextReq = 1
        /\ nRec = 0
        /\ execCount = [i \in 1..MaxReq |-> 0]
        /\ issued = {}
        /\ endpoint = FALSE
        /\ conn = [c \in Conns |-> "ready"]
        /\ stop_event = FALSE
        /\ transfer = NoTransfer
        /\ out = [NewOut("__init__") EXCEPT
                    !.pre = NOT_CONNECTED,
                    !.log = IF client THEN {}
                            ELSE IF reachable THEN {"failed to connect"}
                            ELSE {"cannot connect"}]

-----------------------------------------------------------------------------
(* Inputs *)

\* the recordings of a run (0: a file that is no recording)
Recs == 0..(IF MaxCycles > MaxRec THEN MaxCycles ELSE MaxRec)

ZeroLocks == [r \in Recs |-> 0]

\* lock counts for the recordings in S, none for the others
LockFns(S, choices) ==
    {[r \in Recs |-> IF r \in S THEN g[r] ELSE 0] : g \in [S -> choices]}

\* recordings whose files a move started now may find in the buffer
BufferRecs == {f.rec : f \in fs.buffer}
\* recordings whose files are in the current session folder
CurrentRecs == {f.rec : f \in FilesIn(World, fm.current_using_folder)}

\* the pop-up is only asked when it exists and some root is missing
ConfirmChoices == IF popUp /\ ~(Roots \subseteq fs.roots) THEN Answers ELSE {TRUE}

\* at a stop, the file the backend has just written may still be held
StopLocks ==
    IF statusCode = RECORDING_STARTED
    THEN LockFns({nRec}, {0, MaxRetries})
    ELSE {ZeroLocks}

ServerUnchanged == UNCHANGED <<mode, endpoint, conn, stop_event>>

-----------------------------------------------------------------------------
(* The controller used as a library: one action per public method *)

StartRecording ==
    /\ mode = "lib"
    /\ \E backendOK \in BOOLEAN :
        /\ (statusCode = IDLE /\ ws /\ backendOK) => nRec < MaxRec
        /\ Commit(start_recording(Begin("start_recording"), backendOK))
    /\ UNCHANGED nextReq
    /\ ServerUnchanged

StopRecording ==
    /\ mode = "lib"
    /\ \E backendOK \in BOOLEAN, confirm \in ConfirmChoices,
          mlocks \in StopLocks, rlocks \in StopLocks :
        Commit(stop_recording(Begin("stop_recording"),
                              backendOK, mlocks, rlocks, confirm))
    /\ UNCHANGED nextReq
    /\ ServerUnchanged

\* start_recording in a run of several start/stop cycles
StartCycle ==
    /\ mode = "lib"
    /\ \E backendOK \in BOOLEAN :
        /\ (statusCode = IDLE /\ ws /\ backendOK) => nRec < MaxCycles
        /\ Commit(start_recording(Begin("start_recording"), backendOK))
    /\ UNCHANGED nextReq
    /\ ServerUnchanged

SetSaveLocation ==
    /\ mode = "lib"
    /\ nextReq <= MaxReq
    /\ statusCode = IDLE \/ Len(queued_operations) < MaxQueue
    /\ \E root \in Roots, label \in Labels, confirm \in ConfirmChoices :
        Commit(set_save_location(Begin("set_save_location"),
                                 root, label, nextReq, confirm))
    /\ nextReq' = nextReq + 1
    /\ ServerUnchanged

SetBufferFolder ==
    /\ mode = "lib"
    /\ \E path \in BufferPaths :
        Commit(set_buffer_folder(Begin("set_buffer_folder"), path))
    /\ UNCHANGED nextReq
    /\ ServerUnchanged

UploadLastRecordings ==
    /\ mode = "lib"
    /\ \E listing \in Listings(FilesIn(World, fm.current_using_folder)) :
        \E failAt \in 0..Len(listing) :
            Commit(upload_last_recordings(Begin("upload_last_recordings"),
                                          listing, failAt))
    /\ UNCHANGED nextReq
    /\ ServerUnchanged

MoveRecordedFiles ==
    /\ mode = "lib"
    /\ \E locks \in LockFns(BufferRecs, LockChoices), confirm \in ConfirmChoices :
        Commit(move_recorded_files(Begin("move_recorded_files"), locks, confirm))
    /\ UNCHANGED nextReq
    /\ ServerUnchanged

PrependVidName ==
    /\ mode = "lib"
    /\ \A f \in FilesIn(World, fm.current_using_folder) : Len(f.name) <= MaxPrefix
    /\ \E vid_name \in {None, "A"}, confirm \in ConfirmChoices,
          locks \in LockFns(CurrentRecs, {0, MaxRetries}) :
        Commit(prepend_vid_name_last_recordings(
                   Begin("prepend_vid_name_last_recordings"),
                   vid_name, locks, confirm))
    /\ UNCHANGED nextReq
    /\ ServerUnchanged

\* recordings a health check may find frozen
FrozenChoices == SUBSET {f.rec : f \in FilesIn(World, fm.last_used_folder)}

CheckLastUsedFolder ==
    /\ mode = "lib"
    /\ \E frozen \in FrozenChoices :
        Commit(health_check(Begin("check_last_used_folder"), frozen))
    /\ UNCHANGED nextReq
    /\ ServerUnchanged

Connect ==
    /\ mode = "lib"
    /\ \E ok \in BOOLEAN : Commit(connect(Begin("connect"), ok))
    /\ UNCHANGED nextReq
    /\ ServerUnchanged

Disconnect ==
    /\ mode = "lib"
    /\ Commit(disconnect(Begin("disconnect")))
    /\ UNCHANGED nextReq
    /\ ServerUnchanged

-----------------------------------------------------------------------------
(* The WebSocket interface *)

\* OBSWebSocketInterface.__init__ on a fresh controller built without a
\* pop-up, then start_server
InterfaceInit ==
    /\ mode = "lib"
    /\ out.op = "__init__"
    /\ ~popUp
    /\ \E path \in BufferPaths, ep \in BOOLEAN :
        LET w1 == set_buffer_folder(Begin("interface_init"), path)
            w2 == IF Raised(w1) THEN w1
                  ELSE set_save_location(w1, SaveRoot, DefaultLabel, nextReq, TRUE)
        IN /\ Commit(w2)
           /\ mode' = IF Raised(w2) THEN "crashed" ELSE "serving"
           /\ endpoint' = ep
    /\ nextReq' = nextReq + 1
    /\ UNCHANGED <<conn, stop_event>>

\* the handler of connection c starts on message op
Receive(c, op) == Begin(op)

\* the handler has run one branch: an exception that leaves it ends the
\* handler, and with it the connection (out.open); the next message then
\* comes on a new connection
Handled(c, w) ==
    /\ Commit([w EXCEPT !.out.open = ~Raised(w)])
    /\ UNCHANGED <<mode, endpoint, conn, stop_event>>

OnStart(c) ==
    /\ mode = "serving" /\ conn[c] = "ready"
    /\ \E backendOK \in BOOLEAN :
        /\ (statusCode = IDLE /\ ws /\ backendOK) => nRec < MaxRec
        /\ Handled(c, start_recording(Receive(c, "Start"), backendOK))
    /\ UNCHANGED nextReq

OnStop(c) ==
    /\ mode = "serving" /\ conn[c] = "ready"
    /\ \E backendOK \in BOOLEAN,
          mlocks \in StopLocks, rlocks \in StopLocks :
        LET w1 == stop_recording(Receive(c, "Stop"),
                                 backendOK, mlocks, rlocks, TRUE)
        IN IF endpoint /\ ~Raised(w1)
           THEN \E listing \in Listings(FilesIn(w1, w1.fm.current_using_folder)) :
                    \E failAt \in 0..Len(listing) :
                        Handled(c, upload_last_recordings(w1, listing, failAt))
           ELSE Handled(c, w1)
    /\ UNCHANGED nextReq

OnHealth(c) ==
    /\ mode = "serving" /\ conn[c] = "ready"
    /\ \E frozen \in FrozenChoices :
        Handled(c, on_health(Receive(c, "health"), frozen))
    /\ UNCHANGED nextReq

OnSetName(c) ==
    /\ mode = "serving" /\ conn[c] = "ready"
    /\ nextReq <= MaxReq
    /\ statusCode = IDLE \/ Len(queued_operations) < MaxQueue
    /\ \E label \in ClientLabels :
        Handled(c, set_save_location(Receive(c, "SetName"),
                                     SaveRoot, label, nextReq, TRUE))
    /\ nextReq' = nextReq + 1

OnSendFilePrevious(c) ==
    /\ mode = "serving" /\ conn[c] = "ready"
    /\ \E wellFormed \in BOOLEAN, receiverUp \in BOOLEAN,
          listing \in Listings(FilesIn(World, fm.last_used_folder)) :
        Handled(c, on_send_file_previous(Receive(c, "SendFilePrevious"),
                                         wellFormed, listing, receiverUp))
    /\ UNCHANGED nextReq

\* a message that equals none of the commands and starts with none of
\* their prefixes; binary: it came in a binary frame, so it is a bytes
\* object, the comparisons with == are false and
\* message.startswith("SetName") raises TypeError
on_unknown(w, binary) ==
    IF binary THEN Raise(w, "TypeError")
    ELSE Log(w, "unknown message")

OnUnknown(c) ==
    /\ mode = "serving" /\ conn[c] = "ready"
    /\ \E binary \in BOOLEAN :
        Handled(c, on_unknown(Receive(c, "unknown"), binary))
    /\ UNCHANGED nextReq

\* a Kill that closes the connection without the grace delay
OnKill_no_grace(c) ==
    /\ mode = "serving" /\ conn[c] = "ready"
    /\ Commit(disconnect(Receive(c, "Kill")))
    /\ conn' = [conn EXCEPT ![c] = "closing"]
    /\ UNCHANGED <<mode, endpoint, stop_event, nextReq>>

\* "Kill", up to the first await: disconnect, then sleep
OnKill(c) ==
    /\ mode = "serving" /\ conn[c] = "ready"
    /\ Commit(disconnect(Receive(c, "Kill")))
    /\ conn' = [conn EXCEPT ![c] = "sleeping"]
    /\ UNCHANGED <<mode, endpoint, stop_event, nextReq>>

\* the sleep is over: await websocket.close()
KillClose(c) ==
    /\ conn[c] = "sleeping"
    /\ conn' = [conn EXCEPT ![c] = "closing"]
    /\ UNCHANGED <<mode, statusCode, ws, comps, popUp, queued_operations,
                   last_upload_health, fm, fs, nextReq, nRec, execCount,
                   issued, endpoint, stop_event, out, transfer>>

\* the connection is closed: self.stop_event.set(); return
KillSignal(c) ==
    /\ conn[c] = "closing"
    /\ conn' = [conn EXCEPT ![c] = "ready"]
    /\ stop_event' = TRUE
    /\ UNCHANGED <<mode, statusCode, ws, comps, popUp, queued_operations,
                   last_upload_health, fm, fs, nextReq, nRec, execCount,
                   issued, endpoint, out, transfer>>

\* start_server_async wakes up on stop_event: shutdown_server
ShutdownServer ==
    /\ mode = "serving"
    /\ stop_event
    /\ mode' = "stopped"
    /\ UNCHANGED <<conn, statusCode, ws, comps, popUp, queued_operations,
                   last_upload_health, fm, fs, nextReq, nRec, execCount,
                   issued, endpoint, stop_event, out, transfer>>

-----------------------------------------------------------------------------
(* The file transfer, one file per connection *)

ControllerVars ==
    <<mode, statusCode, ws, comps, popUp, queued_operations,
      last_upload_health, fm, fs, nextReq, nRec, execCount, issued,
      endpoint, conn, stop_event, out>>

\* send_file: connect, write the size, the name and the content, close
SendFile ==
    /\ transfer.stage = "idle"
    /\ \E name \in FileNames, data \in FileContents :
        transfer' = [NoTransfer EXCEPT !.stage = "connected",
                                      !.name = name, !.data = data,
                                      !.stream = send_file(name, data)]
    /\ UNCHANGED ControllerVars

\* file_size = int((await reader.readexactly(10)).decode().strip())
ReadSize ==
    /\ transfer.stage = "connected"
    /\ Len(transfer.stream) >= SizeWidth
    /\ transfer' = [transfer EXCEPT
          !.stage = "sized",
          !.file_size = ParseInt(Strip(SubSeq(transfer.stream, 1, SizeWidth))),
          !.stream = SubSeq(@, SizeWidth + 1, Len(@))]
    /\ UNCHANGED ControllerVars

\* file_name = (await reader.readuntil(b"\n")).decode().strip(), and the
\* file is opened under that name
ReadName ==
    /\ transfer.stage = "sized"
    /\ \E i \in 1..Len(transfer.stream) : transfer.stream[i] = NL
    /\ LET i == FirstNL(transfer.stream)
       IN transfer' = [transfer EXCEPT
             !.stage = "body",
             !.file_name = Strip(SubSeq(transfer.stream, 1, i)),
             !.stream = SubSeq(@, i + 1, Len(@))]
    /\ UNCHANGED ControllerVars

\* one turn of the loop: a read of at most min(1024, what is missing)
\* bytes returns some of the bytes that have arrived, and they are written
ReadChunk ==
    /\ transfer.stage = "body"
    /\ Len(transfer.written) < transfer.file_size
    /\ transfer.stream # << >>
    /\ \E k \in 1..Min(Min(ChunkSize, transfer.file_size - Len(transfer.written)),
                       Len(transfer.stream)) :
        transfer' = [transfer EXCEPT
            !.written = @ \o SubSeq(transfer.stream, 1, k),
            !.stream = SubSeq(@, k + 1, Len(@))]
    /\ UNCHANGED ControllerVars

\* the loop ends (all bytes are there, or read returned b""): the file and
\* the connection are closed
CloseFile ==
    /\ transfer.stage = "body"
    /\ Len(transfer.written) >= transfer.file_size \/ transfer.stream = << >>
    /\ transfer' = [transfer EXCEPT !.stage = "done"]
    /\ UNCHANGED ControllerVars

\* the receiver waits for the next connection
NextFile ==
    /\ transfer.stage = "done"
    /\ transfer' = NoTransfer
    /\ UNCHANGED ControllerVars

TransferNext ==
    \/ SendFile
    \/ ReadSize
    \/ ReadName
    \/ ReadChunk
    \/ CloseFile
    \/ NextFile

\* the controller driven through the methods of a recording session
Next ==
    \/ StartRecording
    \/ StopRecording
    \/ SetSaveLocation
    \/ SetBufferFolder
    \/ UploadLastRecordings
    \/ CheckLastUsedFolder

\* start/stop cycles and changes of the save location
CycleNext ==
    \/ StartCycle
    \/ StopRecording
    \/ SetSaveLocation

\* ... and through the archival methods a caller may run by hand
ArchiveNext ==
    \/ Next
    \/ MoveRecordedFiles
    \/ PrependVidName

\* ... and through connect and disconnect
ConnectionNext ==
    \/ Next
    \/ Connect
    \/ Disconnect

\* the controller driven by the WebSocket interface
ServerNext ==
    \/ InterfaceInit
    \/ \E c \in Conns :
        \/ OnStart(c)
        \/ OnStop(c)
        \/ OnHealth(c)
        \/ OnSetName(c)
        \/ OnSendFilePrevious(c)
        \/ OnUnknown(c)
        \/ OnKill(c)
        \/ KillClose(c)
        \/ KillSignal(c)
    \/ ShutdownServer

Spec == Init /\ [][Next]_vars

ArchiveSpec == Init /\ [][ArchiveNext]_vars

ConnectionSpec == Init /\ [][ConnectionNext]_vars

ServerSpec == Init /\ [][ServerNext]_vars

CycleSpec == Init /\ [][CycleNext]_vars

\* the library caller keeps asking for starts and stops
FairSpec == Spec /\ WF_vars(StartRecording) /\ WF_vars(StopRecording)

\* the controller under either driver: a library caller that also connects
\* and disconnects, or the WebSocket interface
ControlNext ==
    \/ ConnectionNext
    \/ ServerNext

ControlSpec == Init /\ [][ControlNext]_vars

\* the file transfer beside an idle controller
TransferInit == Init /\ ws /\ ~popUp /\ fs.roots = {}

TransferSpec == TransferInit /\ [][TransferNext]_vars

-----------------------------------------------------------------------------
(* Starting a recording *)

\* the operation that has just run is a start request, as a method call or
\* as the Start message
StartRan == out.op \in {"start_recording", "Start"}

\* C1: a start request that finds a recording already running leaves the
\* status at RECORDING_STARTED, logs the "not idle" error, raises nothing
\* and does not invoke the backend's start primitive a second time.
C1_SecondStartRejected ==
    (StartRan /\ out.pre = RECORDING_STARTED) =>
        /\ statusCode = RECORDING_STARTED
        /\ "not idle" \in out.log
        /\ out.exc = NoExc
        /\ out.calls = << >>

\* a second start has been asked for while the first recording runs
C1_SecondStartSeen ==
    /\ StartRan /\ out.pre = RECORDING_STARTED
    /\ nRec = 1

\* C5: when the backend's start primitive raises in a start request made
\* at IDLE, the exception is caught and reported, nothing is raised to the
\* caller, and the status is IDLE afterwards.
C5_FailedStartStaysIdle ==
    (StartRan /\ out.pre = IDLE /\ out.calls = << <<"start_record", FALSE>> >>) =>
        /\ statusCode = IDLE
        /\ out.exc = NoExc
        /\ "failed to start recording" \in out.log

\* the backend has refused a start made at IDLE
C5_FailedStartSeen ==
    /\ StartRan /\ out.pre = IDLE
    /\ out.calls = << <<"start_record", FALSE>> >>
    /\ ws

-----------------------------------------------------------------------------
(* Stopping a recording *)

StopRan == out.op \in {"stop_recording", "Stop"}

\* C4: when the backend's stop primitive raises in a stop request made at
\* RECORDING_STARTED, the transition is aborted: the status is still
\* RECORDING_STARTED when stop_recording has returned.
C4_FailedStopKeepsRecording ==
    (/\ StopRan /\ out.pre = RECORDING_STARTED
     /\ <<"stop_record", FALSE>> \in {out.calls[k] : k \in 1..Len(out.calls)})
        => statusCode = RECORDING_STARTED

-----------------------------------------------------------------------------
(* Requests queued while a recording runs *)

QueuedIds(q) == {q[k].id : k \in 1..Len(q)}

\* the step is a stop request whose backend stop returned, so that the
\* archiving (move and rename) has run
StopArchived ==
    /\ out'.op = "stop_recording"
    /\ out'.pre = RECORDING_STARTED
    /\ <<"stop_record", TRUE>> \in {out'.calls[k] : k \in 1..Len(out'.calls)}

\* C2: a set_save_location made while the status is RECORDING_STARTED
\* leaves the current session as it is and runs no request; the next
\* stop_recording that archives runs every request waiting in the queue
\* exactly once and removes it from the queue, and no request is ever run
\* a second time.
C2_QueuedRunOnceAfterStop ==
    [][ /\ (out'.op = "set_save_location" /\ out'.pre = RECORDING_STARTED) =>
            /\ fm' = fm
            /\ execCount' = execCount
        /\ StopArchived =>
            \A id \in QueuedIds(queued_operations) :
                /\ execCount'[id] = 1
                /\ id \notin QueuedIds(queued_operations')
        /\ \A id \in 1..MaxReq : execCount'[id] <= 1 ]_vars

-----------------------------------------------------------------------------
(* Session folders *)

\* the k-th session folder the step creates, and what precedes it
CreatedBefore(k) == {out'.created[j] : j \in 1..(k - 1)}

\* C3: every session folder set_save_location creates is root/label/i with
\* i the lowest positive integer whose folder did not exist: the folder did
\* not exist and held no file before, every lower suffix of the label was
\* taken, and i is above the suffix of every folder created earlier for
\* the same root and label.
C3_LowestFreeSuffix ==
    [][ \A k \in 1..Len(out'.created) :
          LET f == out'.created[k]
              existing == fs.folders \cup CreatedBefore(k)
              earlier == issued \cup CreatedBefore(k)
          IN /\ f[3] >= 1
             /\ f \notin existing
             /\ FilesIn(World, f) = {}
             /\ \A i \in 1..(f[3] - 1) : <<f[1], f[2], i>> \in existing
             /\ \A g \in earlier :
                    (g[1] = f[1] /\ g[2] = f[2]) => g[3] < f[3] ]_vars

\* two folders of one label have been created around the folder of an
\* earlier run, the second by the call that has just returned
C3_GapSkipped ==
    /\ out.op = "set_save_location"
    /\ out.created = << <<SaveRoot, "A", 3>> >>
    /\ <<SaveRoot, "A", 1>> \in issued
    /\ <<SaveRoot, "A", 2>> \in fs.folders \ issued

-----------------------------------------------------------------------------
(* A controller built while the backend was unreachable *)

\* C6: on a controller constructed at NOT_CONNECTED, every public
\* operation returns without raising and leaves the status NOT_CONNECTED.
C6_UnreachableNeverRaises ==
    (out.op # "__init__" /\ out.pre = NOT_CONNECTED /\ ~comps) =>
        /\ out.exc = NoExc
        /\ statusCode = NOT_CONNECTED

-----------------------------------------------------------------------------
(* The health check and SendFilePrevious *)

\* the session folder that holds the file of recording n, if any
ArchiveOf(n) ==
    IF \E e \in fs.files : e[2].rec = n
    THEN (CHOOSE e \in fs.files : e[2].rec = n)[1]
    ELSE NoFolder

HealthRan == out.op \in {"check_last_used_folder", "health"}

\* C7: once the most recent recording has been stopped and archived, a
\* health check validates the session folder that received its file.
C7_HealthChecksLatestArchive ==
    (HealthRan /\ nRec >= 1 /\ ArchiveOf(nRec) # NoFolder) =>
        out.checked = ArchiveOf(nRec)

\* C8: after SetName L, Start and Stop, a SendFilePrevious that follows
\* the Stop sends the file of the recording that Stop has just archived.
C8_SendsJustStoppedRecording ==
    [][ (/\ out.op = "Stop" /\ out.pre = RECORDING_STARTED
         /\ out.ran = << >>
         /\ \E f \in out.moved : f.rec = nRec
         /\ fm.current_using_folder[2] \in ClientLabels
         /\ out'.op = "SendFilePrevious" /\ out'.exc = NoExc)
        => \E k \in 1..Len(out'.sent) : out'.sent[k].rec = nRec ]_vars

-----------------------------------------------------------------------------
(* Uploads *)

\* the last POST of the operation recorded in o got an error status
UploadFailed(o) ==
    /\ o.calls # << >>
    /\ o.calls[Len(o.calls)] = <<"post", FALSE>>

\* C9: when a POST of upload_last_recordings gets an error status, no
\* later file is posted, the call returns (False, error) rather than
\* raising, the upload half of the health snapshot becomes a failure, and
\* a health command that follows does not answer Good.
C9_FailedUploadReported ==
    [][ /\ \A k \in 1..Len(out'.calls) :
              out'.calls[k] = <<"post", FALSE>> => k = Len(out'.calls)
        /\ UploadFailed(out') =>
              /\ out'.exc = NoExc
              /\ out'.ret = "(False, error)"
              /\ ~last_upload_health'.ok
        /\ (UploadFailed(out) /\ out'.op = "health") =>
              "Good" \notin {out'.reply[k] : k \in 1..Len(out'.reply)} ]_vars

\* C10: upload_last_recordings returns success only when the current
\* session folder is set, exists and holds a file; on an existing but
\* empty folder it returns failure and records it in the health snapshot.
C10_UploadNeedsFiles ==
    (out.op = "upload_last_recordings" /\ out.exc = NoExc /\ comps) =>
        LET dir == fm.current_using_folder
            usable == /\ dir # NoFolder
                      /\ dir \in fs.folders
                      /\ FilesIn(World, dir) # {}
        IN /\ out.ret = "(True, Good)" => usable
           /\ ~usable => (out.ret = "(False, error)" /\ ~last_upload_health.ok)

-----------------------------------------------------------------------------
(* Moving the recorded files *)

\* the operation moved files out of the buffer, by hand or within a stop
MoveRan == out.op \in {"move_recorded_files", "stop_recording"}

MovedNames == {f.name : f \in out.moved}
FailedNames == {f.name : f \in out.moveFailed}
BufferNames == {f.name : f \in fs.buffer}

\* C11: with max_retries = 6, a file whose move hits a lock on exactly 2
\* attempts is moved on the third and not reported as failed; a file locked
\* on all 6 attempts is tried exactly 6 times, reported as failed and left
\* in the buffer; every file of the call is judged on its own locks only.
C11_RetriesPerFile ==
    MoveRan =>
        \A t \in out.attempts :
            LET name == t[1]  locked == t[2]  made == t[3]
            IN /\ locked < MaxRetries =>
                    /\ made = locked + 1
                    /\ name \in MovedNames /\ name \notin FailedNames
                    /\ name \notin BufferNames
               /\ locked >= MaxRetries =>
                    /\ made = MaxRetries
                    /\ name \in FailedNames /\ name \notin MovedNames
                    /\ name \in BufferNames
                    /\ "failed to move" \in out.log

\* one call has moved a file on its third attempt and given up another
\* after six
C11_LockedTwiceAndForGood ==
    /\ out.op = "move_recorded_files"
    /\ \E t \in out.attempts : t[2] = 2 /\ t[3] = 3 /\ t[1] \in MovedNames
    /\ \E t \in out.attempts : t[2] = MaxRetries /\ t[1] \in FailedNames

-----------------------------------------------------------------------------
(* Renaming the archived files *)

\* file f with one more label in front of its name
Prefixed(f, label) == [f EXCEPT !.name = <<label>> \o @]

\* C12: an application of prepend_vid_name_last_recordings in which no
\* rename is given up turns every file f of the current session folder
\* into label_f, whatever prefixes f already has, and touches no other
\* file: n applications give n prefixes.
C12_PrefixEveryApplication ==
    [][ (/\ out'.op = "prepend_vid_name_last_recordings"
         /\ out'.exc = NoExc
         /\ fm.current_using_folder \in fs.folders
         /\ "failed to rename" \notin out'.log)
        => LET dir == fm.current_using_folder
               rest == {e \in fs.files : e[1] # dir}
           IN \E label \in Labels :
                fs'.files =
                    rest \cup {<<dir, Prefixed(f, label)>> : f \in FilesIn(World, dir)}
      ]_vars

\* a file that was given the label at its stop has been given it again
C12_PrefixedTwice ==
    /\ out.op = "prepend_vid_name_last_recordings"
    /\ \E f \in FilesIn(World, fm.current_using_folder) :
          f.name = <<"A", "A", RecName(1)[1]>>

-----------------------------------------------------------------------------
(* Kill and the other connections *)

\* the step handles a Stop message (a Stop that changes nothing is a
\* stuttering step)
StopStep == out'.op = "Stop" /\ out' # out

\* C14: the upload of a Stop is not cut short by a Kill on another
\* connection: within the step of the Stop no Kill advances, and the upload
\* posts every file of the session folder unless it fails by itself; a Kill
\* runs in the order backend disconnect, grace delay, close of the
\* connection, shutdown signal, and the server stops only on the signal.
C14_KillAfterUpload ==
    [][ /\ StopStep =>
            /\ conn' = conn /\ stop_event' = stop_event /\ mode' = mode
            /\ statusCode' = KILL => statusCode = KILL
            /\ (endpoint /\ out'.uploadedFrom # NoFolder /\ out'.exc = NoExc) =>
                  {out'.uploaded[k] : k \in 1..Len(out'.uploaded)}
                      = FilesIn([fs |-> fs'], out'.uploadedFrom)
        /\ \A c \in Conns :
            /\ (conn[c] # "sleeping" /\ conn'[c] = "sleeping") =>
                  /\ conn[c] = "ready" /\ out'.op = "Kill"
                  /\ statusCode' = KILL
                  /\ ws => out'.calls = << <<"disconnect", TRUE>> >>
                  /\ stop_event' = stop_event
            /\ (conn[c] # "closing" /\ conn'[c] = "closing") =>
                  (conn[c] = "sleeping" /\ stop_event' = stop_event)
            /\ (conn[c] # "ready" /\ conn'[c] = "ready") =>
                  (conn[c] = "closing" /\ stop_event')
        /\ stop_event' # stop_event =>
              \E c \in Conns : conn[c] = "closing" /\ conn'[c] = "ready"
        /\ (mode # "stopped" /\ mode' = "stopped") => stop_event ]_vars

\* a recording was archived and uploaded, and a Kill has then run to the
\* shutdown of the server
C14_KilledAfterUpload ==
    /\ mode = "stopped" /\ stop_event
    /\ statusCode = KILL
    /\ endpoint /\ fs.files # {}
    /\ last_upload_health.ok

-----------------------------------------------------------------------------
(* Messages that are no command *)

\* the step handles a message (no Kill advances in it) and the message is
\* none of the commands
UnknownStep ==
    /\ out'.op = "unknown"
    /\ conn' = conn /\ stop_event' = stop_event /\ mode' = mode

\* C15: a message that is none of the commands changes neither the status,
\* the queue, the sessions, the files nor the health snapshot, sends no
\* reply, raises nothing and leaves the connection open.
C15_UnknownIgnored ==
    [][ UnknownStep =>
          /\ UNCHANGED <<statusCode, ws, queued_operations, fm, fs,
                         last_upload_health, execCount, nRec>>
          /\ out'.reply = << >>
          /\ out'.exc = NoExc
          /\ out'.open
          /\ \A c \in Conns : conn'[c] = conn[c] ]_vars

-----------------------------------------------------------------------------
(* connect and disconnect *)

\* the last operation was a connect on a NOT_CONNECTED controller that got
\* its backend client
ConnectedNow(o, client) ==
    o.op = "connect" /\ o.pre = NOT_CONNECTED /\ client

\* C16: a connect that succeeds at NOT_CONNECTED leaves the status at IDLE,
\* and a start_recording made right after it, with the backend answering,
\* is accepted.
C16_ConnectEndsIdle ==
    [][ /\ ConnectedNow(out', ws') => statusCode' = IDLE
        /\ (/\ ConnectedNow(out, ws)
             /\ out'.op = "start_recording"
             /\ out'.calls # << <<"start_record", FALSE>> >>)
            => statusCode' = RECORDING_STARTED ]_vars

\* the commands that C17 names, as messages and as method calls
SessionCommands ==
    {"Start", "Stop", "SetName", "health", "SendFilePrevious",
     "start_recording", "stop_recording", "set_save_location",
     "check_last_used_folder"}

\* C17: a disconnect, from whatever status, leaves the status at KILL and
\* closes the backend channel exactly when there is one; once the status
\* is KILL, no Start, Stop, SetName, health or SendFilePrevious moves it.
C17_KillIsFinal ==
    [][ /\ (out'.op \in {"disconnect", "Kill"} /\ out' # out) =>
            /\ statusCode' = KILL
            /\ out'.exc = NoExc
            /\ out'.calls = IF ws THEN << <<"disconnect", TRUE>> >> ELSE << >>
        /\ (statusCode = KILL /\ out'.op \in SessionCommands) =>
            statusCode' = KILL ]_vars

\* a SetName has arrived after a Kill that interrupted a recording
C17_CommandAfterKill ==
    /\ out.op = "SetName" /\ out.pre = KILL
    /\ statusCode = KILL
    /\ nRec = 1 /\ fs.files = {}

-----------------------------------------------------------------------------
(* Several connections *)

\* the step changes something of the controller or of its files
ControllerChanges ==
    <<statusCode, ws, queued_operations, fm, fs, last_upload_health>>' #
    <<statusCode, ws, queued_operations, fm, fs, last_upload_health>>

\* connections whose handler is at another place after the step
Moved == {c \in Conns : conn'[c] # conn[c]}

\* C18: the commands of the connections run one at a time and each runs to
\* completion: what the next command finds is never the transient SAVING
\* status of an operation in flight; a step that changes the controller is
\* the step of one command on one connection; and the Stop that archives
\* has set the status and emptied the queue when its step ends.
C18_OneOperationAtATime ==
    [][ /\ mode' = "serving" => statusCode' \in {IDLE, RECORDING_STARTED, KILL}
        /\ ControllerChanges =>
              /\ out'.op \in {"interface_init", "Start", "Stop", "Kill",
                               "SetName"}
              /\ Cardinality(Moved) <= 1
              /\ Moved # {} => out'.op = "Kill"
        /\ (/\ out'.op = "Stop" /\ out' # out
             /\ <<"stop_record", TRUE>> \in
                    {out'.calls[k] : k \in 1..Len(out'.calls)})
            => (statusCode' = IDLE /\ queued_operations' = << >>) ]_vars

\* while the Kill of one connection is in its grace delay, the command of
\* another connection has been handled
C18_CommandDuringGraceDelay ==
    /\ \E c \in Conns : conn[c] = "sleeping"
    /\ out.op = "Stop" /\ out.pre = KILL
    /\ nRec = 1

-----------------------------------------------------------------------------
(* A Stop that is not due *)

\* the step handles a Stop message (no Kill advances in it) that finds no
\* recording running
RejectedStopStep ==
    /\ out'.op = "Stop" /\ out'.pre # RECORDING_STARTED
    /\ conn' = conn /\ stop_event' = stop_event /\ mode' = mode

\* C19: a Stop received while the status is not RECORDING_STARTED changes
\* neither the status, the queue, the sessions nor the health snapshot,
\* and performs no backend stop, no archival and no upload.
C19_StopRejectedIsNoOp ==
    [][ RejectedStopStep =>
          /\ UNCHANGED <<statusCode, queued_operations, fm, fs,
                         last_upload_health>>
          /\ out'.exc = NoExc
          /\ out'.calls = << >>
          /\ out'.moved = {}
          /\ out'.uploaded = << >> ]_vars

-----------------------------------------------------------------------------
(* The file transfer *)

\* C20: for a file whose size fits the size field and whose name holds no
\* newline, the receiver never writes more bytes than announced, and when
\* the connection is done it has written a file of the same name with
\* exactly the bytes that were sent.
C20_TransferRoundTrip ==
    /\ Len(transfer.written) <= transfer.file_size
    /\ transfer.stage = "done" =>
          /\ transfer.file_name = transfer.name
          /\ transfer.written = transfer.data

-----------------------------------------------------------------------------
(* The steps of a stop *)

\* the k-th request of the queue the step starts from
QueuedId(k) == queued_operations[k].id

\* the files that lie in folder d after the step
FilesAfter(d) == {x[2] : x \in {y \in fs'.files : y[1] = d}}

\* C21: a stop_recording whose backend stop returned invokes the backend
\* first, moves the buffer files into the session folder that was current
\* on entry, then renames the files of that folder with the label that was
\* current on entry (also when a file could not be moved), then sets the
\* status, then drains: the queued requests run in queue order at IDLE and
\* the folders they create hold none of the archived files.
C21_StopOrder ==
    [][ StopArchived =>
          LET dir == fm.current_using_folder
              label == fm.last_vid_name
          IN /\ out'.calls[1] = <<"stop_record", TRUE>>
             /\ \A f \in out'.moved :
                    \/ f \in FilesAfter(dir)
                    \/ [f EXCEPT !.name = <<label>> \o @] \in FilesAfter(dir)
             /\ "failed to rename" \notin out'.log =>
                    \A g \in FilesAfter(dir) : g.name[1] = label
             /\ \A k \in 1..Len(out'.created) :
                    FilesAfter(out'.created[k]) = {}
             /\ statusCode' = IDLE
             /\ queued_operations # << >> => out'.ran # << >>
             /\ Len(out'.ran) <= Len(queued_operations)
             /\ \A k \in 1..Len(out'.ran) : out'.ran[k] = QueuedId(k) ]_vars

\* a stop has left the locked recording in the buffer, has archived and
\* renamed the other file, and has then run the request that was waiting
C21_RenamedDespiteFailedMove ==
    /\ out.op = "stop_recording"
    /\ out.moveFailed # {} /\ out.moved # {}
    /\ out.ran = <<2>> /\ out.created # << >>
    /\ \E e \in fs.files : e[1] = fm.last_used_folder /\ Len(e[2].name) = 2

-----------------------------------------------------------------------------
(* A session folder that cannot be resolved *)

\* the step is a set_save_location that was executed (status IDLE on
\* entry) and whose root folder is missing and was not created: there is
\* no pop-up, or the pop-up was declined
ResolveFailed ==
    /\ out'.op = "set_save_location" /\ out'.pre = IDLE
    /\ comps
    /\ SaveRoot \notin fs'.roots

\* C22: when the session folder cannot be resolved, the status is IDLE
\* again after the call and the current and the last-used session are
\* unchanged.
C22_FailedResolveRecovers ==
    [][ ResolveFailed =>
          /\ statusCode' = IDLE
          /\ fm'.current_using_folder = fm.current_using_folder
          /\ fm'.last_used_folder = fm.last_used_folder ]_vars

-----------------------------------------------------------------------------
(* The pending queue *)

\* C23: between two operations, a controller whose status is IDLE has an
\* empty pending queue: whatever set the status to IDLE has drained it.
C23_IdleMeansDrained ==
    statusCode = IDLE => queued_operations = << >>

\* the ids of the requests of queue q, in queue order
IdsOf(q) == [k \in 1..Len(q) |-> q[k].id]

\* C24: when two or more requests wait in the queue, the stop_recording
\* that archives runs all of them, in queue order, in its one drain: the
\* queue is empty afterwards, the k-th folder created is a folder of the
\* k-th request, and the current session is the folder of the last one.
C24_WholeQueueInOrder ==
    [][ (StopArchived /\ Len(queued_operations) >= 2) =>
          LET n == Len(queued_operations)
          IN /\ out'.ran = IdsOf(queued_operations)
             /\ queued_operations' = << >>
             /\ Len(out'.created) = n
             /\ \A k \in 1..Len(out'.created) :
                    /\ out'.created[k][1] = queued_operations[k].root
                    /\ out'.created[k][2] = queued_operations[k].label
                    /\ \A j \in 1..(k - 1) : out'.created[j] # out'.created[k]
             /\ Len(out'.created) = n =>
                    fm'.current_using_folder = out'.created[n] ]_vars

-----------------------------------------------------------------------------
(* The current and the last-used session *)

\* C25: a set_save_location that is executed creates one new folder, makes
\* it the current session and makes the session that was current the
\* last-used one; one that is queued, or that fails, changes neither.  The
\* same holds request by request for the requests a drain executes.
C25_SessionReplacedAndDemoted ==
    [][ LET n == Len(out'.created)
        IN /\ (out'.op = "set_save_location" /\ out'.ret = "True") => n = 1
           /\ (out'.op = "set_save_location" /\ out'.ret = "False") =>
                  /\ n = 0
                  /\ execCount' = execCount
           /\ n = 0 =>
                  /\ fm'.current_using_folder = fm.current_using_folder
                  /\ fm'.last_used_folder = fm.last_used_folder
           /\ n >= 1 =>
                  /\ out'.created[n] \notin fs.folders
                  /\ fm'.current_using_folder = out'.created[n]
                  /\ fm'.last_used_folder =
                        IF n = 1 THEN fm.current_using_folder
                        ELSE out'.created[n - 1] ]_vars

\* the second of two requests has been executed on a controller whose
\* current session was the one of the first
C25_SecondSessionAdopted ==
    /\ out.op = "set_save_location" /\ out.ret = "True"
    /\ fm.last_used_folder # NoFolder
    /\ fm.current_using_folder # fm.last_used_folder
    /\ execCount[1] = 1 /\ execCount[2] = 1

\* C26: while start and stop requests keep coming, every request in the
\* pending queue is eventually executed and out of the queue.
C26_QueuedEventuallyRuns ==
    \A id \in 1..MaxReq :
        (id \in QueuedIds(queued_operations))
            ~> (id \notin QueuedIds(queued_operations) /\ execCount[id] >= 1)

-----------------------------------------------------------------------------
(* The upload of a Stop *)

\* C27: when a Stop message is handled with an endpoint configured and the
\* file of the recording is archived, the folder whose files are uploaded
\* is the session folder the file was archived into (the one current when
\* the Stop arrived), whether or not a queued SetName ran in the drain.
C27_UploadsArchiveFolder ==
    [][ (/\ out'.op = "Stop" /\ statusCode = RECORDING_STARTED
         /\ endpoint
         /\ \E f \in out'.moved : f.rec = nRec)
        => out'.uploadedFrom = fm.current_using_folder ]_vars

-----------------------------------------------------------------------------
(* The order in which requests take effect *)

\* C28: requests are executed in the order in which they arrived (ids
\* are given in arrival order): a request that a step executes has a
\* higher id than the requests the step executed before it, and no
\* request with a higher id was executed in an earlier step.
C28_ArrivalOrder ==
    [][ \A k \in 1..Len(out'.ran) :
          /\ \A i \in 1..(k - 1) : out'.ran[i] < out'.ran[k]
          /\ \A j \in (out'.ran[k] + 1)..MaxReq : execCount[j] = 0 ]_vars

-----------------------------------------------------------------------------
(* Termination of a drain *)

\* the operations that end with a drain of the queue
DrainOps ==
    {"stop_recording", "move_recorded_files",
     "prepend_vid_name_last_recordings"}

\* C29: every drain ends: an operation that drains a queue of n requests
\* enters the body of at most n requests, each of them once and in queue
\* order (each one found the status IDLE), and puts no request back: what
\* is left in the queue is what the drain did not reach, and that is
\* nothing unless a request raised.
C29_DrainTerminates ==
    [][ /\ "drain does not terminate" \notin out'.log
        /\ out'.op \in DrainOps =>
              LET n == Len(queued_operations)
                  m == Len(out'.ran)
              IN /\ m <= n
                 /\ \A k \in 1..m :
                        /\ out'.ran[k] = QueuedId(k)
                        /\ execCount'[QueuedId(k)] = execCount[QueuedId(k)] + 1
                 /\ queued_operations' = SubSeq(queued_operations, m + 1, n)
                 /\ (/\ m >= 1 /\ out'.exc = NoExc
                     /\ "failed to stop recording" \notin out'.log)
                        => queued_operations' = << >> ]_vars

\* an archival call made by hand has drained a queue of two requests
C29_TwoDrainedByArchival ==
    /\ out.op \in {"move_recorded_files", "prepend_vid_name_last_recordings"}
    /\ out.ran = <<1, 2>>
    /\ out.exc = NoExc
    /\ queued_operations = << >>

-----------------------------------------------------------------------------
(* The label prefix of the archived files *)

\* C30: over start/stop cycles and set_save_location calls no archived
\* file ever carries a second label prefix, and when a stop has archived
\* and no rename was given up, every file of the session folder it
\* archived into is named label_name with the label of that session.
C30_PrefixedExactlyOnce ==
    [][ /\ \A e \in fs'.files : Len(e[2].name) <= 2
        /\ (StopArchived /\ "failed to rename" \notin out'.log) =>
              \A g \in FilesAfter(fm.current_using_folder) :
                  /\ Len(g.name) = 2
                  /\ g.name[1] = fm.last_vid_name ]_vars

-----------------------------------------------------------------------------
(* The status and the backend client *)

\* C31: whenever the status is CONNECTED, IDLE, RECORDING_STARTED or
\* SAVING, the controller holds a backend client (ws is set).
C31_ConnectedStatusHasClient ==
    statusCode \in {CONNECTED, IDLE, RECORDING_STARTED, SAVING} => ws

====
